---- MODULE Spec2Model ----
(***************************************************************************)
(* Mutation-and-commit core of the fuse table engine (databend).           *)
(*                                                                         *)
(* Spec          : UPDATE / DELETE statements (UpdateInterpreter::execute2 *)
(*                 followed by the run of the pipeline it builds) and      *)
(*                 ALTER TABLE ADD COLUMN statements                       *)
(*                 (AddTableColumnInterpreter::execute2) running           *)
(*                 concurrently against one table of the meta store.       *)
(* SpecRecluster : PipelineBuilder::build_recluster_source on one task     *)
(*                 list, followed by the run of the pipeline it builds.    *)
(***************************************************************************)
EXTENDS Integers, Sequences, FiniteSets, TLC

VARIABLES
    table,      \* meta store: the table's ident.seq and its TableMeta
    lock_revs,  \* meta store: the lock revisions, [key, rev, owner]
    next_rev,   \* meta store: the next lock revision number
    pc,         \* per statement: where it stands
    tbl,        \* per statement: the table object it holds (get_table / refresh)
    plan,       \* per statement: the pipeline execute2 built
    fast,       \* per statement: what fast_update answered
    retries,    \* per statement: conflict retries of its commit stage
    result,     \* per statement: what the caller is told
    guard,      \* per statement: who owns the lock guard
    calls,      \* per statement: the collaborator calls issued, in order
    dels,       \* per statement: delete_lock_revision calls for its revision
    wlog,       \* history: the successful update_table_meta calls
    shared,     \* sharing subsystem: table versions saved by save_share_table_info
    focus,      \* the statement whose inputs range over every case
    rc,         \* the recluster pipeline builder and its pipeline
    rd,         \* the Parquet table's reader: its plan, readers and progress
    failed,     \* per statement: the fallible steps that returned an error
    computed,   \* per statement: what is known of its computed column list
    reply,      \* per statement: share_table_info of its update_table_meta reply
    label,      \* per statement: what check_deduplicate_label answered
    conv,       \* the sort row converter: its sort fields, input and keys
    ctx,        \* the caching table context of one planned statement
    pt          \* two partition descriptors and what equals / hash answered

others == <<conv, ctx, pt>>

mutVars == <<table, lock_revs, next_rev, pc, tbl, plan, fast, retries, result,
             guard, calls, dels, wlog, shared, focus, rd, failed, computed,
                   reply, label, others>>
vars == <<table, lock_revs, next_rev, pc, tbl, plan, fast, retries, result,
          guard, calls, dels, wlog, shared, focus, rc, rd, failed, computed,
                   reply, label, others>>

----------------------------------------------------------------------------
(* Bounds of the model *)

\* conflict retries the commit stage makes before it gives up
MaxRetries == 2
\* a recluster task: rows and bytes of its blocks, and the block thresholds
MaxTotalRows == 6
MaxTotalBytes == 6
MaxRowsPerBlock == 3
MaxBytesPerBlock == 2
\* the settings max_threads and max_block_size, and the width of the read
MaxWidth == 2
\* the most tasks one recluster source is given
MaxTasks == 3
\* the most partitions of one kind in a partition list
MaxParts == 3

----------------------------------------------------------------------------
(* The statements and the table *)

Mutations == {"u1", "d1"}
AddColumns == {"a1", "a2"}
Sessions == Mutations \cup AddColumns

MutationKind(s) == IF s = "d1" THEN "Delete" ELSE "Update"

TableId == 1
InitBlocks == {1, 2}

\* the block an UPDATE by statement s writes in place of block b
NewBlock(s, b) == IF s = "u1" THEN 10 + b ELSE 20 + b

Engines == {"FUSE", "VIEW", "STREAM"}

InitTable(e) == [id |-> TableId, seq |-> 1, engine |-> e,
                 snapshot |-> InitBlocks, ncols |-> 1]
NoTable == [id |-> 0, seq |-> 0, engine |-> "", snapshot |-> {}, ncols |-> 0]
NoPlan == [kind |-> "none", root |-> "", input |-> "", base |-> 0,
           snapshot |-> {}, parts |-> [parts |-> {}, is_lazy |-> FALSE],
           removed |-> {}, added |-> {}, mutation_kind |-> "",
           merge_meta |-> FALSE, need_lock |-> FALSE]
EmptyPipeline == [NoPlan EXCEPT !.kind = "empty"]

IdleRc == [pc |-> "idle"]

IdleConv == [pc |-> "idle"]

IdleCtx == [pc |-> "idle"]

IdlePt == [pc |-> "idle"]

IdleRd == [pc |-> "idle"]

----------------------------------------------------------------------------
(* The meta store: update_table_meta and the lock revisions *)

\* MatchSeq: the precondition an update_table_meta request carries
MatchSeqOk(m, seq) ==
    CASE m.kind = "Exact" -> seq = m.v
      [] m.kind = "GE"    -> seq >= m.v
      [] OTHER            -> TRUE

\* update_table_meta: a compare-and-swap of the table meta by expected version.
\* s issues req, built on the table version base it holds.
UpdateTableMetaOk(s, req, base) ==
    /\ MatchSeqOk(req.seq, table.seq)
    /\ table' = [table EXCEPT !.seq = table.seq + 1,
                              !.snapshot = req.new_table_meta.snapshot,
                              !.ncols = req.new_table_meta.ncols]
    /\ wlog' = wlog \cup {[by |-> s, base |-> base, prev |-> table.seq,
                           now |-> table.seq + 1, before |-> table.snapshot,
                           after |-> req.new_table_meta.snapshot]}

UpdateTableMetaConflict(req) ==
    /\ ~MatchSeqOk(req.seq, table.seq)
    /\ UNCHANGED <<table, wlog>>

OwnRevs(s) == {r \in lock_revs : r.owner = s}

\* The lock guard's release: delete_lock_revision of the statement's revision
ReleaseGuard(s) ==
    /\ lock_revs' = lock_revs \ OwnRevs(s)
    /\ dels' = [dels EXCEPT ![s] = @ + 1]
    /\ guard' = [guard EXCEPT ![s] = "released"]

Log(s, cs) == calls' = [calls EXCEPT ![s] = @ \o cs]

\* The steps in fs have returned an error to the statement s
Fail(s, fs) == failed' = [failed EXCEPT ![s] = @ \cup fs]

----------------------------------------------------------------------------
(* UpdateInterpreter::execute2 *)

\* What the statement and its context give execute2 once the lock is held
UpdInputs == [dedup : BOOLEAN, found : BOOLEAN, mutable : BOOLEAN,
              subquery : BOOLEAN, row_id : BOOLEAN, where : BOOLEAN,
              deterministic : BOOLEAN, computed : BOOLEAN, licensed : BOOLEAN]

\* A statement out of focus is a plain UPDATE ... WHERE on a table that
\* exists: no label, no subquery, a deterministic predicate, no computed
\* column
PlainUpdInputs ==
    {in \in UpdInputs : /\ ~in.dedup /\ in.found /\ in.mutable
                        /\ ~in.subquery /\ in.row_id /\ in.where
                        /\ in.deterministic /\ ~in.computed /\ in.licensed}

UpdInputsOf(s) == IF s = focus THEN UpdInputs ELSE PlainUpdInputs

\* The kind of an error the caller is given: the ErrorCode constructor used.
\* Line 110 uses ErrorCode::from_string, which names no kind; lines 155 and
\* 194 use ErrorCode::Unimplemented.
ErrorKind(e) ==
    CASE e = "ErrorCode(row_id)" -> "from_string"
      [] e = "Unimplemented(predicate)" -> "Unimplemented"
      [] e = "Unimplemented(engine)" -> "Unimplemented"
      [] OTHER -> e

\* (mutant) the result of check_enterprise_enabled is dropped
LicenseCheckIgnored(is_computed, licensed) ==
    [on |-> is_computed, step |-> "check_enterprise_enabled",
     calls |-> <<"check_enterprise_enabled">>,
     fail |-> ~licensed, err |-> ""]

\* Lines 186-191 (and lines 91-96 of ADD COLUMN): with a computed column,
\* check_enterprise_enabled(license key, ComputedColumn)?
LicenseCheck(is_computed, licensed) ==
    [on |-> is_computed, step |-> "check_enterprise_enabled",
     calls |-> <<"check_enterprise_enabled">>,
     fail |-> ~licensed, err |-> "LicenseKeyInvalid"]

\* The checks of execute2 between try_lock and fast_update, in the code's
\* order: each applies or not, issues its calls, and may fail with err.
Checks(in, t) == <<
    [on |-> in.subquery, step |-> "support_row_id_column",
     calls |-> <<"support_row_id_column">>,
     fail |-> ~in.row_id, err |-> "ErrorCode(row_id)"],
    [on |-> in.subquery, step |-> "replace_subquery",
     calls |-> <<"subquery_filter", "replace_subquery">>,
     fail |-> FALSE, err |-> ""],
    [on |-> in.subquery \/ in.where, step |-> "is_deterministic",
     calls |-> <<"create_push_down_filters", "is_deterministic">>,
     fail |-> ~in.deterministic, err |-> "Unimplemented(predicate)"],
    [on |-> TRUE, step |-> "generate_stored_computed_list",
     calls |-> <<"generate_update_list", "generate_stored_computed_list">>,
     fail |-> FALSE, err |-> ""],
    LicenseCheck(in.computed, in.licensed),
    [on |-> TRUE, step |-> "downcast_ref_FuseTable",
     calls |-> <<"downcast_ref_FuseTable">>,
     fail |-> t.engine # "FUSE", err |-> "Unimplemented(engine)"] >>

RECURSIVE RunChecks(_, _, _)
RunChecks(cs, i, log) ==
    IF i > Len(cs) THEN [err |-> "", calls |-> log, failed |-> {}]
    ELSE IF ~cs[i].on THEN RunChecks(cs, i + 1, log)
    ELSE IF cs[i].fail /\ cs[i].err # ""
    THEN \* the error is returned: `?` or return Err
         [err |-> cs[i].err, calls |-> log \o cs[i].calls,
          failed |-> {cs[i].step}]
    ELSE LET r == RunChecks(cs, i + 1, log \o cs[i].calls) IN
         IF cs[i].fail THEN [r EXCEPT !.failed = @ \cup {cs[i].step}] ELSE r

\* (mutant) the lock keyed by the versioned table ident
LockKeyBySeq(t) == <<t.id, t.seq>>

\* The key of the table lock: LockManager::create_table_lock(table info)
LockKey(t) == t.id

\* (mutant) an early return that leaks the guard
ExitErrLeak(s, e) ==
    /\ pc' = [pc EXCEPT ![s] = "done"]
    /\ result' = [result EXCEPT ![s] = e]
    /\ UNCHANGED <<lock_revs, dels, guard>>

\* An early return of execute2 with the lock guard in scope: the guard is
\* dropped with the function's locals.
ExitErr(s, e) ==
    /\ pc' = [pc EXCEPT ![s] = "done"]
    /\ result' = [result EXCEPT ![s] = e]
    /\ ReleaseGuard(s)

\* (mutant) Ok(build_res) without add_lock_guard: the guard is dropped with
\* the function's locals
ReturnOkDropGuard(s) ==
    /\ pc' = [pc EXCEPT ![s] = "pipeline"]
    /\ ReleaseGuard(s)
    /\ UNCHANGED result

\* Ok(build_res): add_lock_guard has moved the guard into the pipeline
ReturnOk(s) ==
    /\ pc' = [pc EXCEPT ![s] = "pipeline"]
    /\ guard' = [guard EXCEPT ![s] = "pipeline"]
    /\ UNCHANGED <<lock_revs, dels, result>>

\* What fast_update can answer on the table object t
FastUpdateOutcomes(s, t) ==
    (IF s = focus
     THEN {[kind |-> "None", parts |-> {}, is_lazy |-> FALSE],
           [kind |-> "Err", parts |-> {}, is_lazy |-> FALSE]}
     ELSE {})
    \cup {[kind |-> "Some", parts |-> {b}, is_lazy |-> l] :
             b \in t.snapshot, l \in IF s = focus THEN BOOLEAN ELSE {FALSE}}

\* (mutant) the commit sink is told to take the table lock itself
BuildPhysicalPlanNeedLock(s, partitions, t) ==
    [kind |-> "commit", root |-> "CommitSink", input |-> "UpdateSource",
     base |-> t.seq, snapshot |-> t.snapshot,
     parts |-> [parts |-> partitions.parts, is_lazy |-> partitions.is_lazy],
     removed |-> partitions.parts,
     added |-> IF MutationKind(s) = "Update"
               THEN {NewBlock(s, b) : b \in partitions.parts} ELSE {},
     mutation_kind |-> MutationKind(s),
     merge_meta |-> partitions.is_lazy,
     need_lock |-> TRUE]

\* Lines 263-297: CommitSink over UpdateSource: the table info and snapshot
\* planned on, the partitions to rewrite and the blocks that replace them,
\* merge_meta = partitions.is_lazy, need_lock = false
BuildPhysicalPlan(s, partitions, t) ==
    [kind |-> "commit", root |-> "CommitSink", input |-> "UpdateSource",
     base |-> t.seq, snapshot |-> t.snapshot,
     parts |-> [parts |-> partitions.parts, is_lazy |-> partitions.is_lazy],
     removed |-> partitions.parts,
     added |-> IF MutationKind(s) = "Update"
               THEN {NewBlock(s, b) : b \in partitions.parts} ELSE {},
     mutation_kind |-> MutationKind(s),
     merge_meta |-> partitions.is_lazy,
     need_lock |-> FALSE]

\* (mutant) the pipeline is built whatever fast_update answers
BuildResultNoShortcut(s, fu, t) ==
    IF fu.kind = "Err"
    THEN [err |-> "StorageError", plan |-> NoPlan, calls |-> <<"fast_update">>]
    ELSE [err |-> "", plan |-> BuildPhysicalPlan(s, fu, t),
          calls |-> <<"fast_update", "mutation_read_partitions",
                      "build_physical_plan", "build_query_pipeline",
                      "hook_refresh_agg_index">>]

\* Lines 201-254 of execute2: the pipeline built from fast_update's answer
\* fu on the table object t
BuildResult(s, fu, t) ==
    CASE fu.kind = "None" ->
           [err |-> "", plan |-> EmptyPipeline, calls |-> <<"fast_update">>]
      [] fu.kind = "Err" ->
           [err |-> "StorageError", plan |-> NoPlan, calls |-> <<"fast_update">>]
      [] OTHER ->
           [err |-> "", plan |-> BuildPhysicalPlan(s, fu, t),
            calls |-> <<"fast_update", "mutation_read_partitions",
                        "build_physical_plan", "build_query_pipeline",
                        "hook_refresh_agg_index">>]

\* (mutant) the statement goes on whatever the label check answered
AfterDedupLabelContinue(applied) == "continue"

\* Lines 86-88: "if check_deduplicate_label(..)? { return Ok(empty) }"
AfterDedupLabel(applied) == IF applied THEN "return" ELSE "continue"

UpdGetTable(s) ==
    /\ pc[s] = "start"
    /\ \E in \in UpdInputsOf(s) :
         /\ label' = [label EXCEPT ![s] =
                         IF in.dedup THEN "applied" ELSE "new"]
         /\ IF AfterDedupLabel(in.dedup) = "return"
            THEN /\ pc' = [pc EXCEPT ![s] = "done"]
                 /\ result' = [result EXCEPT ![s] = "ok"]
                 /\ plan' = [plan EXCEPT ![s] = EmptyPipeline]
                 /\ Log(s, <<"check_deduplicate_label">>)
                 /\ UNCHANGED <<tbl, failed>>
            ELSE IF ~in.found
            THEN /\ pc' = [pc EXCEPT ![s] = "done"]
                 /\ result' = [result EXCEPT ![s] = "UnknownTable"]
                 /\ Log(s, <<"check_deduplicate_label", "get_catalog",
                             "get_table">>)
                 /\ Fail(s, {"get_table"})
                 /\ UNCHANGED <<tbl, plan>>
            ELSE /\ tbl' = [tbl EXCEPT ![s] = table]
                 /\ Log(s, <<"check_deduplicate_label", "get_catalog", "get_table",
                             "check_mutable">>)
                 /\ pc' = [pc EXCEPT ![s] = IF in.mutable THEN "lock" ELSE "done"]
                 /\ result' = [result EXCEPT ![s] =
                                  IF in.mutable THEN @ ELSE "NotMutable"]
                 /\ Fail(s, IF in.mutable THEN {} ELSE {"check_mutable"})
                 /\ UNCHANGED plan
    /\ UNCHANGED <<fast, table, lock_revs, next_rev, retries, guard, dels, wlog,
                   shared, focus, rc, rd, computed, reply, others>>

\* try_lock, first half: create_lock_revision
UpdCreateLockRevision(s) ==
    /\ pc[s] = "lock"
    /\ lock_revs' = lock_revs \cup
           {[key |-> LockKey(tbl[s]), rev |-> next_rev, owner |-> s]}
    /\ next_rev' = next_rev + 1
    /\ pc' = [pc EXCEPT ![s] = "wait_lock"]
    /\ Log(s, <<"create_table_lock", "try_lock">>)
    /\ UNCHANGED <<fast, table, tbl, plan, retries, result, guard, dels, wlog,
                   shared, focus, rc, rd, failed, computed,
                   reply, label, others>>

\* the statement's revision is the oldest on its key
Oldest(s) ==
    \A r \in OwnRevs(s) : \A o \in lock_revs :
        o.key = r.key => o.rev >= r.rev

\* try_lock, second half: the guard is handed out
UpdLockAcquire(s) ==
    /\ pc[s] = "wait_lock"
    /\ Oldest(s)
    /\ guard' = [guard EXCEPT ![s] = "execute2"]
    /\ pc' = [pc EXCEPT ![s] = "locked"]
    /\ UNCHANGED <<fast, table, lock_revs, next_rev, tbl, plan, retries, result,
                   calls, dels, wlog, shared, focus, rc, rd, failed, computed,
                   reply, label, others>>

\* try_lock, second half: the wait for an older revision ends with an error
UpdLockTimeout(s) ==
    /\ pc[s] = "wait_lock"
    /\ ~Oldest(s)
    /\ lock_revs' = lock_revs \ OwnRevs(s)
    /\ dels' = [dels EXCEPT ![s] = @ + 1]
    /\ pc' = [pc EXCEPT ![s] = "done"]
    /\ result' = [result EXCEPT ![s] = "TableLockExpired"]
    /\ Fail(s, {"try_lock"})
    /\ UNCHANGED <<fast, table, next_rev, tbl, plan, retries, guard, calls,
                   wlog, shared, focus, rc, rd, computed,
                   reply, label, others>>

\* Lines 107-199
UpdValidate(s) ==
    /\ pc[s] = "locked"
    /\ \E in \in UpdInputsOf(s) :
         LET r == RunChecks(Checks(in, tbl[s]), 1, <<>>) IN
         /\ Log(s, r.calls)
         /\ Fail(s, r.failed)
         /\ computed' =
              [computed EXCEPT ![s] =
                  IF \E i \in DOMAIN r.calls :
                         r.calls[i] = "generate_stored_computed_list"
                  THEN (IF in.computed THEN "nonempty" ELSE "empty")
                  ELSE @]
         /\ IF r.err # ""
            THEN ExitErr(s, r.err)
            ELSE /\ pc' = [pc EXCEPT ![s] = "validated"]
                 /\ UNCHANGED <<lock_revs, dels, guard, result>>
    /\ UNCHANGED <<fast, table, next_rev, tbl, plan, retries, wlog, shared,
                   focus, rc, rd, reply, label, others>>

\* Lines 201-257
UpdBuild(s) ==
    /\ pc[s] = "validated"
    /\ \E fu \in FastUpdateOutcomes(s, tbl[s]) :
         LET r == BuildResult(s, fu, tbl[s]) IN
         /\ fast' = [fast EXCEPT ![s] = fu.kind]
         /\ IF r.err # ""
            THEN /\ ExitErr(s, r.err)
                 /\ Log(s, r.calls)
                 /\ Fail(s, {"fast_update"})
                 /\ UNCHANGED plan
            ELSE /\ plan' = [plan EXCEPT ![s] = r.plan]
                 /\ Log(s, r.calls \o <<"add_lock_guard">>)
                 /\ ReturnOk(s)
                 /\ UNCHANGED failed
    /\ UNCHANGED <<table, next_rev, tbl, retries, wlog, shared, focus, rc, rd,
                   computed,
                   reply, label, others>>

----------------------------------------------------------------------------
(* The commit stage of the pipeline (CommitSink) *)

\* (mutant) the next snapshot derived from the snapshot planned on
GenerateNewSnapshotStale(base, p) == (p.snapshot \ p.removed) \cup p.added

\* The next snapshot: the base's blocks, less the removed, plus the added
GenerateNewSnapshot(base, p) == (base.snapshot \ p.removed) \cup p.added

CommitReq(base, p) ==
    [seq |-> [kind |-> "Exact", v |-> base.seq],
     new_table_meta |-> [snapshot |-> GenerateNewSnapshot(base, p),
                         ncols |-> base.ncols]]

\* The delta can be derived again on the reloaded base
Resolvable(base, p) == p.removed \subseteq base.snapshot

\* (mutant) a retry loop without a bound
CanRetryAlways(n) == TRUE

\* Another retry is allowed after n
CanRetry(n) == n < MaxRetries

\* One attempt to publish: update_table_meta with the held version.  A sink
\* with need_lock takes the table lock first: its revision is newer than the
\* one the pipeline's guard holds, so the wait ends with an error
UpdCommitTry(s) ==
    /\ pc[s] = "pipeline"
    /\ plan[s].kind = "commit"
    /\ IF plan[s].need_lock
       THEN /\ lock_revs' = lock_revs \cup
                   {[key |-> LockKey(tbl[s]), rev |-> next_rev, owner |-> s]}
            /\ next_rev' = next_rev + 1
            /\ Log(s, <<"create_table_lock", "try_lock">>)
            /\ pc' = [pc EXCEPT ![s] = "finish"]
            /\ result' = [result EXCEPT ![s] = "TableLockExpired"]
            /\ Fail(s, {"try_lock"})
            /\ UNCHANGED <<table, wlog>>
       ELSE /\ Log(s, <<"update_table_meta">>)
            /\ LET req == CommitReq(tbl[s], plan[s]) IN
                 \/ /\ UpdateTableMetaOk(s, req, tbl[s].seq)
                    /\ pc' = [pc EXCEPT ![s] = "finish"]
                    /\ result' = [result EXCEPT ![s] = "ok"]
                 \/ /\ UpdateTableMetaConflict(req)
                    /\ pc' = [pc EXCEPT ![s] = "conflict"]
                    /\ UNCHANGED result
            /\ UNCHANGED <<lock_revs, next_rev, failed>>
    /\ UNCHANGED <<fast, tbl, plan, retries, guard, dels,
                   shared, focus, rc, rd, computed,
                   reply, label, others>>

\* After a conflict: reload the latest table and derive the delta again,
\* or give up
UpdCommitRetry(s) ==
    /\ pc[s] = "conflict"
    /\ IF ~CanRetry(retries[s])
       THEN /\ result' = [result EXCEPT ![s] = "ConflictRetriesExhausted"]
            /\ pc' = [pc EXCEPT ![s] = "finish"]
            /\ Fail(s, {"commit"})
            /\ UNCHANGED <<tbl, retries>>
       ELSE IF ~Resolvable(table, plan[s])
       THEN /\ result' = [result EXCEPT ![s] = "UnresolvableConflict"]
            /\ pc' = [pc EXCEPT ![s] = "finish"]
            /\ Fail(s, {"commit"})
            /\ UNCHANGED <<tbl, retries>>
       ELSE /\ tbl' = [tbl EXCEPT ![s] = table]
            /\ retries' = [retries EXCEPT ![s] = @ + 1]
            /\ pc' = [pc EXCEPT ![s] = "pipeline"]
            /\ UNCHANGED <<result, failed>>
    /\ UNCHANGED <<fast, table, lock_revs, next_rev, plan, guard, calls, dels,
                   wlog, shared, focus, rc, rd, computed,
                   reply, label, others>>

\* The pipeline has finished, with success or failure, and is dropped with
\* the lock guard it holds
UpdPipelineFinish(s) ==
    /\ \/ pc[s] = "finish"
       \/ pc[s] = "pipeline" /\ plan[s].kind = "empty"
    /\ pc' = [pc EXCEPT ![s] = "done"]
    /\ result' = [result EXCEPT ![s] = IF pc[s] = "pipeline" THEN "ok" ELSE @]
    /\ lock_revs' = lock_revs \ OwnRevs(s)
    /\ dels' = [dels EXCEPT ![s] = @ + 1]
    /\ guard' = [guard EXCEPT ![s] = "released"]
    /\ UNCHANGED <<fast, table, next_rev, tbl, plan, retries, calls, wlog,
                   shared, focus, rc, rd, failed, computed,
                   reply, label, others>>

----------------------------------------------------------------------------
(* AddTableColumnInterpreter::execute2 *)

AcInputs == [found : BOOLEAN, mutable : BOOLEAN, normal_db : BOOLEAN,
             computed : BOOLEAN, licensed : BOOLEAN, field_ok : BOOLEAN,
             share : BOOLEAN, share_ok : BOOLEAN]

\* A statement out of focus adds a plain column to a table that exists, in a
\* normal database, and is not shared
PlainAcInputs ==
    {in \in AcInputs : /\ in.found /\ in.mutable /\ in.normal_db
                       /\ ~in.computed /\ in.licensed /\ in.field_ok
                       /\ ~in.share /\ in.share_ok}

AcInputsOf(s) == IF s = focus THEN AcInputs ELSE PlainAcInputs

\* (mutant) only views are refused
AlterRefusedViewOnly(engine) == engine = "VIEW"

\* Line 75: matches!(engine, VIEW_ENGINE | STREAM_ENGINE)
AlterRefused(engine) == engine \in {"VIEW", "STREAM"}

\* Lines 69-107: the checks before the request is built, in the code's order
AcChecks(in, t) == <<
    [on |-> TRUE, step |-> "check_mutable", calls |-> <<"check_mutable">>,
     fail |-> ~in.mutable, err |-> "NotMutable"],
    [on |-> TRUE, step |-> "engine", calls |-> <<>>,
     fail |-> AlterRefused(t.engine),
     err |-> "TableEngineNotSupported"],
    [on |-> TRUE, step |-> "db_type", calls |-> <<>>,
     fail |-> ~in.normal_db, err |-> "TableEngineNotSupported"],
    [on |-> TRUE, step |-> "computed_expr", calls |-> <<"computed_expr">>,
     fail |-> FALSE, err |-> ""],
    LicenseCheck(in.computed, in.licensed),
    [on |-> TRUE, step |-> "add_column", calls |-> <<"add_column">>,
     fail |-> ~in.field_ok, err |-> "BadField"] >>

\* (mutant) a request without a version precondition
AddColumnMatchSeqAny(table_version) == [kind |-> "Any", v |-> table_version]

\* Line 114: the precondition of the request
AddColumnMatchSeq(table_version) == [kind |-> "Exact", v |-> table_version]

\* (mutant) the new meta built from scratch, not from the table's meta
AddColumnReqFreshMeta(t) ==
    [seq |-> AddColumnMatchSeq(t.seq),
     new_table_meta |-> [snapshot |-> {}, ncols |-> t.ncols + 1]]

\* Lines 89-119: the request, built on the table object t
AddColumnReq(t) ==
    [seq |-> AddColumnMatchSeq(t.seq),
     new_table_meta |-> [snapshot |-> t.snapshot, ncols |-> t.ncols + 1]]

\* Lines 61-67: get_table(...).await.ok()
AcGetTable(s) ==
    /\ pc[s] = "start"
    /\ Log(s, <<"get_catalog", "get_table">>)
    /\ \E in \in AcInputsOf(s) :
         IF in.found
         THEN /\ tbl' = [tbl EXCEPT ![s] = table]
              /\ pc' = [pc EXCEPT ![s] = "fetched"]
              /\ UNCHANGED <<result, failed>>
         ELSE /\ pc' = [pc EXCEPT ![s] = "done"]
              /\ result' = [result EXCEPT ![s] = "ok"]
              /\ Fail(s, {"get_table"})
              /\ UNCHANGED tbl
    /\ UNCHANGED <<fast, table, lock_revs, next_rev, plan, retries, guard, dels,
                   wlog, shared, focus, rc, rd, computed,
                   reply, label, others>>

\* (mutant) the reply's share table info is dropped
PropagateShareNever(share_table_info, save_ok) ==
    [calls |-> <<>>, saved |-> FALSE, err |-> ""]

\* Lines 123-130: if the reply carries share table info, it is saved, and
\* a failure to save is returned
PropagateShare(share_table_info, save_ok) ==
    IF share_table_info = "none"
    THEN [calls |-> <<>>, saved |-> FALSE, err |-> ""]
    ELSE IF save_ok
    THEN [calls |-> <<"save_share_table_info">>, saved |-> TRUE, err |-> ""]
    ELSE [calls |-> <<"save_share_table_info">>, saved |-> FALSE,
          err |-> "ShareSaveError"]

\* Lines 69-133
AcExecute(s) ==
    /\ pc[s] = "fetched"
    /\ pc' = [pc EXCEPT ![s] = "done"]
    /\ \E in \in AcInputsOf(s) :
         LET r == RunChecks(AcChecks(in, tbl[s]), 1, <<>>)
             req == AddColumnReq(tbl[s])
             res == IF in.share THEN "some" ELSE "none"
             sh == PropagateShare(res, in.share_ok) IN
         /\ computed' =
              [computed EXCEPT ![s] =
                  IF \E i \in DOMAIN r.calls : r.calls[i] = "computed_expr"
                  THEN (IF in.computed THEN "nonempty" ELSE "empty")
                  ELSE @]
         /\ IF r.err # ""
            THEN /\ result' = [result EXCEPT ![s] = r.err]
                 /\ Log(s, r.calls)
                 /\ Fail(s, r.failed)
                 /\ UNCHANGED <<table, wlog, shared, reply>>
            ELSE \/ /\ UpdateTableMetaOk(s, req, tbl[s].seq)
                    /\ reply' = [reply EXCEPT ![s] = res]
                    /\ Log(s, r.calls \o <<"update_table_meta">> \o sh.calls)
                    /\ shared' = IF sh.saved
                                 THEN shared \cup {table.seq + 1} ELSE shared
                    /\ result' = [result EXCEPT ![s] =
                                     IF sh.err = "" THEN "ok" ELSE sh.err]
                    /\ Fail(s, r.failed \cup
                               (IF sh.err = "" THEN {}
                                ELSE {"save_share_table_info"}))
                 \/ /\ UpdateTableMetaConflict(req)
                    /\ result' = [result EXCEPT ![s] = "TableVersionMismatched"]
                    /\ Log(s, r.calls \o <<"update_table_meta">>)
                    /\ Fail(s, r.failed \cup {"update_table_meta"})
                    /\ UNCHANGED <<shared, reply>>
    /\ UNCHANGED <<fast, lock_revs, next_rev, tbl, plan, retries, guard, dels,
                   focus, rc, rd, label, others>>

----------------------------------------------------------------------------
(* The specification of the statements *)

Init ==
    /\ table \in {InitTable(e) : e \in Engines}
    /\ lock_revs = {}
    /\ next_rev = 1
    /\ pc = [s \in Sessions |-> "start"]
    /\ tbl = [s \in Sessions |-> NoTable]
    /\ plan = [s \in Sessions |-> NoPlan]
    /\ fast = [s \in Sessions |-> ""]
    /\ retries = [s \in Sessions |-> 0]
    /\ result = [s \in Sessions |-> "none"]
    /\ guard = [s \in Sessions |-> "none"]
    /\ calls = [s \in Sessions |-> <<>>]
    /\ dels = [s \in Sessions |-> 0]
    /\ wlog = {}
    /\ shared = {}
    /\ failed = [s \in Sessions |-> {}]
    /\ computed = [s \in Sessions |-> "unknown"]
    /\ reply = [s \in Sessions |-> "none"]
    /\ label = [s \in Sessions |-> "unknown"]
    /\ conv = IdleConv
    /\ ctx = IdleCtx
    /\ pt = IdlePt
    /\ focus \in {"u1", "a1"}
    /\ table.engine = "STREAM" => focus = "a1"
    /\ rc = IdleRc
    /\ rd = IdleRd

Next ==
    \/ \E s \in Mutations : UpdGetTable(s)
    \/ \E s \in Mutations : UpdCreateLockRevision(s)
    \/ \E s \in Mutations : UpdLockAcquire(s)
    \/ \E s \in Mutations : UpdLockTimeout(s)
    \/ \E s \in Mutations : UpdValidate(s)
    \/ \E s \in Mutations : UpdBuild(s)
    \/ \E s \in Mutations : UpdCommitTry(s)
    \/ \E s \in Mutations : UpdCommitRetry(s)
    \/ \E s \in Mutations : UpdPipelineFinish(s)
    \/ \E s \in AddColumns : AcGetTable(s)
    \/ \E s \in AddColumns : AcExecute(s)

Spec == Init /\ [][Next]_vars

----------------------------------------------------------------------------
(* PipelineBuilder::build_recluster_source *)

Min(a, b) == IF a <= b THEN a ELSE b
Max(a, b) == IF a >= b THEN a ELSE b
DivCeil(a, b) == (a + b - 1) \div b

\* the fill factor of the block count estimate, in percent
FillPercent == 80

RECURSIVE SumSeq(_)
SumSeq(q) == IF q = <<>> THEN 0 ELSE Head(q) + SumSeq(Tail(q))

\* One task and its context: the task's statistics, the table's block
\* thresholds and change tracking, the cluster stats generator's operators,
\* the settings, the pipeline's width after do_read_data, and the blocks of
\* the base snapshot the task consumes
TaskInputs ==
    [tasks : {1},
     total_rows : 0..MaxTotalRows, total_bytes : 0..MaxTotalBytes,
     max_rows_per_block : 1..MaxRowsPerBlock,
     max_bytes_per_block : 1..MaxBytesPerBlock,
     change_tracking : BOOLEAN, has_operators : BOOLEAN,
     max_threads : 1..MaxWidth, max_block_size : 1..MaxWidth,
     output_len : 1..MaxWidth,
     consumed : (SUBSET InitBlocks) \ {{}}]

\* No task, or two and more: there is no single task whose fields are read
RcInputs ==
    TaskInputs \cup
    {[in EXCEPT !.tasks = n] : n \in {0} \cup (2..MaxTasks),
     in \in {i \in TaskInputs :
                /\ i.total_rows = 0 /\ i.total_bytes = 0
                /\ i.max_rows_per_block = 1 /\ i.max_bytes_per_block = 1
                /\ ~i.change_tracking /\ ~i.has_operators
                /\ i.max_threads = 1 /\ i.max_block_size = 1
                /\ i.output_len = 1 /\ i.consumed = InitBlocks}}

\* (mutant) the block count without the fill factor
BlockNumNoFill(total_bytes, max_bytes_per_block) ==
    Max(total_bytes \div max_bytes_per_block, 1)

\* Lines 133-136
BlockNum(total_bytes, max_bytes_per_block) ==
    Max((total_bytes * FillPercent) \div (max_bytes_per_block * 100), 1)

\* (mutant) max for min
FinalBlockSizeMax(total_rows, block_num, max_rows_per_block) ==
    Max(total_rows \div block_num, max_rows_per_block)

\* Lines 137-141
FinalBlockSize(total_rows, block_num, max_rows_per_block) ==
    Min(total_rows \div block_num, max_rows_per_block)

\* (mutant) capped by max_block_size whatever the pipeline's width
PartialBlockSizeCapped(output_len, final_block_size, max_block_size) ==
    Min(final_block_size, max_block_size)

\* Lines 142-149
PartialBlockSize(output_len, final_block_size, max_block_size) ==
    IF output_len > 1 THEN Min(final_block_size, max_block_size)
    ELSE final_block_size

\* (mutant) one worker per output block, whatever max_threads
ResizeWidthUnbounded(max_threads, output_block_num) == output_block_num

\* Lines 178-182: the width the pipeline is resized to after the merge sort
ResizeWidth(max_threads, output_block_num) ==
    Min(max_threads, output_block_num)

\* Line 177: the number of output blocks (final_block_size > 0)
OutputBlockNum(total_rows, final_block_size) ==
    DivCeil(total_rows, final_block_size)

\* (mutant) the first task is run, whatever the number of tasks
TaskArmFirst(n) == IF n = 0 THEN "empty" ELSE "one"

\* Lines 49-51 and 196: the arm of `match recluster_source.tasks.len()`
TaskArm(n) ==
    CASE n = 0 -> "empty"
      [] n = 1 -> "one"
      [] OTHER -> "internal"

\* Lines 84-130: the stages before the merge sort
ReadStages(in) ==
    <<"ReadData">>
    \o (IF in.change_tracking THEN <<"TransformAddStreamColumns">> ELSE <<>>)
    \o (IF in.has_operators THEN <<"CompoundBlockOperator">> ELSE <<>>)

NewRc(in) ==
    [pc |-> "init", in |-> in, block_num |-> 0, final_block_size |-> 0,
     partial_block_size |-> 0, output_block_num |-> 0, width |-> 0,
     stages |-> <<>>, result |-> "none", remaining |-> 0, emitted |-> <<>>,
     sink |-> <<>>, sink_width |-> 0,
     agg |-> [remained |-> {}, removed |-> {}]]

\* Lines 45-200: build_recluster_source on the builder state r
BuildReclusterSource(r) ==
       LET in == r.in
           block_num == BlockNum(in.total_bytes, in.max_bytes_per_block)
           final_block_size ==
               FinalBlockSize(in.total_rows, block_num, in.max_rows_per_block)
           partial_block_size ==
               PartialBlockSize(in.output_len, final_block_size,
                                in.max_block_size)
       IN
         CASE TaskArm(in.tasks) = "empty" ->
                [r EXCEPT !.pc = "running", !.stages = <<"EmptySource">>,
                           !.width = 1, !.result = "ok"]
           [] TaskArm(in.tasks) = "one" /\ final_block_size = 0 ->
                \* line 177: div_ceil by zero
                [r EXCEPT !.pc = "panic", !.block_num = block_num,
                           !.final_block_size = final_block_size,
                           !.partial_block_size = partial_block_size,
                           !.width = in.output_len,
                           !.stages = ReadStages(in) \o <<"MergeSort">>,
                           !.result = "panic"]
           [] TaskArm(in.tasks) = "one" /\ final_block_size > 0 ->
                [r EXCEPT !.pc = "running", !.block_num = block_num,
                           !.final_block_size = final_block_size,
                           !.partial_block_size = partial_block_size,
                           !.output_block_num =
                               OutputBlockNum(in.total_rows, final_block_size),
                           !.width =
                               ResizeWidth(in.max_threads,
                                   OutputBlockNum(in.total_rows,
                                                  final_block_size)),
                           !.stages = ReadStages(in)
                                      \o <<"MergeSort", "SerializeBlock">>,
                           !.remaining = in.total_rows,
                           !.result = "ok"]
           [] OTHER ->
                [r EXCEPT !.pc = "failed", !.result = "Internal"]

\* (mutant) the aggregator is told that every block of the base is removed
ReclusterAggregatorNewAll(in) ==
    [remained |-> InitBlocks \ in.consumed, removed |-> InitBlocks]

\* Lines 214-220: ReclusterAggregator::new with the sink's remained blocks
\* and removed segments
ReclusterAggregatorNew(in) ==
    [remained |-> InitBlocks \ in.consumed, removed |-> in.consumed]

\* Lines 202-240: build_recluster_sink. The input is built first; if that
\* fails nothing is added, else the pipeline is resized to 1 and gets the
\* aggregator and the commit sink.
BuildReclusterSink(r) ==
    LET src == BuildReclusterSource(r) IN
    IF src.result # "ok" THEN src
    ELSE [src EXCEPT !.sink = <<"ReclusterAggregator", "CommitSink">>,
                     !.sink_width = 1,
                     !.agg = ReclusterAggregatorNew(src.in)]

\* The pipeline of a recluster task is built: sink over source
RcBuildSource ==
    /\ rc.pc = "init"
    /\ rc' = BuildReclusterSink(rc)
    /\ UNCHANGED mutVars

\* the block written for the i-th block the merge sort emits
ReclusterBlock(i) == 30 + i

\* the blocks the aggregator has accumulated
ReclusterNewBlocks(r) == {ReclusterBlock(i) : i \in 1..Len(r.emitted)}

\* The merge sort hands the next block of sorted rows to the serializer
RcEmit ==
    /\ rc.pc = "running"
    /\ rc.remaining > 0
    /\ LET n == Min(rc.final_block_size, rc.remaining) IN
         rc' = [rc EXCEPT !.emitted = Append(@, n), !.remaining = @ - n]
    /\ UNCHANGED mutVars

\* The source is drained
RcFinish ==
    /\ rc.pc = "running"
    /\ rc.remaining = 0
    /\ rc' = [rc EXCEPT !.pc = "done"]
    /\ UNCHANGED mutVars

\* The commit sink publishes the aggregator's result: the consumed blocks
\* removed, the written blocks added
RcCommit ==
    /\ rc.pc = "done"
    /\ rc.in.tasks = 1
    /\ LET delta == [removed |-> rc.agg.removed,
                     added |-> ReclusterNewBlocks(rc)] IN
         table' = [table EXCEPT !.seq = @ + 1,
                                !.snapshot = GenerateNewSnapshot(table, delta)]
    /\ rc' = [rc EXCEPT !.pc = "committed"]
    /\ UNCHANGED <<lock_revs, next_rev, pc, tbl, plan, fast, retries, result,
                   guard, calls, dels, wlog, shared, focus, rd, failed,
                   computed,
                   reply, label, others>>

InitRecluster ==
    /\ table = InitTable("FUSE")
    /\ lock_revs = {}
    /\ next_rev = 1
    /\ pc = [s \in Sessions |-> "start"]
    /\ tbl = [s \in Sessions |-> NoTable]
    /\ plan = [s \in Sessions |-> NoPlan]
    /\ fast = [s \in Sessions |-> ""]
    /\ retries = [s \in Sessions |-> 0]
    /\ result = [s \in Sessions |-> "none"]
    /\ guard = [s \in Sessions |-> "none"]
    /\ calls = [s \in Sessions |-> <<>>]
    /\ dels = [s \in Sessions |-> 0]
    /\ wlog = {}
    /\ shared = {}
    /\ failed = [s \in Sessions |-> {}]
    /\ computed = [s \in Sessions |-> "unknown"]
    /\ reply = [s \in Sessions |-> "none"]
    /\ label = [s \in Sessions |-> "unknown"]
    /\ conv = IdleConv
    /\ ctx = IdleCtx
    /\ pt = IdlePt
    /\ focus = "u1"
    /\ rc \in {NewRc(in) : in \in RcInputs}
    /\ rd = IdleRd

NextRecluster == RcBuildSource \/ RcEmit \/ RcFinish \/ RcCommit

SpecRecluster == InitRecluster /\ [][NextRecluster]_vars

----------------------------------------------------------------------------
(* ParquetRSTable::do_read_data and the partition list it is handed *)

\* The row groups of the large files, kept after pruning: eager partitions
RowGroupParts(n) == [i \in 1..n |-> [kind |-> "ParquetRowGroup", id |-> i]]

\* The batches of small files, read whole: lazy partitions
FilesParts(n, from) ==
    [i \in 1..n |-> [kind |-> "ParquetFiles", id |-> from + i]]

\* A lazy partition names where the data is; it is resolved when it is read
IsLazy(p) == p.kind = "ParquetFiles"

\* The list read_partitions hands over: two sequences, concatenated
Partitions(n_row_groups, n_files) ==
    RowGroupParts(n_row_groups) \o FilesParts(n_files, n_row_groups)

\* The plan: how many partitions of each kind, whether there are push-downs,
\* and the parallelism
RdInputs == [n_row_groups : 0..MaxParts, n_files : 0..MaxParts,
             push_downs : BOOLEAN, num_threads : 1..MaxWidth]

NewRd(in) ==
    [pc |-> "init", in |-> in, parts |-> <<>>, has_files_part |-> FALSE,
     pruner |-> FALSE, row_group_reader |-> FALSE,
     full_file_reader |-> FALSE, width |-> 0, next |-> 1, read |-> <<>>,
     result |-> "none"]

\* (mutant) the first partition is inspected, not the last
HasFilesPartFirst(parts) ==
    parts # <<>> /\ parts[1].kind = "ParquetFiles"

\* Lines 44-50: matches!(plan.parts.partitions.last(), Some(ParquetFiles))
HasFilesPart(parts) ==
    parts # <<>> /\ parts[Len(parts)].kind = "ParquetFiles"

\* The plan's partitions are produced
RdReadPartitions ==
    /\ rd.pc = "init"
    /\ rd' = [rd EXCEPT !.pc = "planned",
                        !.parts = Partitions(rd.in.n_row_groups, rd.in.n_files)]
    /\ UNCHANGED <<table, lock_revs, next_rev, pc, tbl, plan, fast, retries,
                   result, guard, calls, dels, wlog, shared, focus, rc,
                   failed, computed,
                   reply, label, others>>

\* Lines 35-101: do_read_data
RdDoReadData ==
    /\ rd.pc = "planned"
    /\ LET has_files_part == HasFilesPart(rd.parts) IN
         rd' = [rd EXCEPT !.pc = "reading",
                          !.has_files_part = has_files_part,
                          !.pruner = has_files_part,
                          !.row_group_reader = TRUE,
                          !.full_file_reader = has_files_part,
                          !.width = rd.in.num_threads]
    /\ UNCHANGED <<table, lock_revs, next_rev, pc, tbl, plan, fast, retries,
                   result, guard, calls, dels, wlog, shared, focus, rc,
                   failed, computed,
                   reply, label, others>>

\* The source takes the next partition: a row group goes to the row group
\* reader, a batch of files to the full file reader, if there is one
RdReadPart ==
    /\ rd.pc = "reading"
    /\ rd.next <= Len(rd.parts)
    /\ LET p == rd.parts[rd.next] IN
         IF IsLazy(p) /\ ~rd.full_file_reader
         THEN rd' = [rd EXCEPT !.pc = "failed", !.result = "NoFullFileReader"]
         ELSE rd' = [rd EXCEPT !.next = @ + 1, !.read = Append(@, p.id)]
    /\ UNCHANGED <<table, lock_revs, next_rev, pc, tbl, plan, fast, retries,
                   result, guard, calls, dels, wlog, shared, focus, rc,
                   failed, computed,
                   reply, label, others>>

\* No partition is left
RdFinish ==
    /\ rd.pc = "reading"
    /\ rd.next > Len(rd.parts)
    /\ rd' = [rd EXCEPT !.pc = "done", !.result = "ok"]
    /\ UNCHANGED <<table, lock_revs, next_rev, pc, tbl, plan, fast, retries,
                   result, guard, calls, dels, wlog, shared, focus, rc,
                   failed, computed,
                   reply, label, others>>

InitRead ==
    /\ table = InitTable("FUSE")
    /\ lock_revs = {}
    /\ next_rev = 1
    /\ pc = [s \in Sessions |-> "start"]
    /\ tbl = [s \in Sessions |-> NoTable]
    /\ plan = [s \in Sessions |-> NoPlan]
    /\ fast = [s \in Sessions |-> ""]
    /\ retries = [s \in Sessions |-> 0]
    /\ result = [s \in Sessions |-> "none"]
    /\ guard = [s \in Sessions |-> "none"]
    /\ calls = [s \in Sessions |-> <<>>]
    /\ dels = [s \in Sessions |-> 0]
    /\ wlog = {}
    /\ shared = {}
    /\ failed = [s \in Sessions |-> {}]
    /\ computed = [s \in Sessions |-> "unknown"]
    /\ reply = [s \in Sessions |-> "none"]
    /\ label = [s \in Sessions |-> "unknown"]
    /\ conv = IdleConv
    /\ ctx = IdleCtx
    /\ pt = IdlePt
    /\ focus = "u1"
    /\ rc = IdleRc
    /\ rd \in {NewRd(in) : in \in RdInputs}

NextRead == RdReadPartitions \/ RdDoReadData \/ RdReadPart \/ RdFinish

SpecRead == InitRead /\ [][NextRead]_vars

----------------------------------------------------------------------------
(* Properties of the statements (Spec) *)

Has(s, c) == \E i \in DOMAIN calls[s] : calls[s][i] = c
Count(s, c) == Cardinality({i \in DOMAIN calls[s] : calls[s][i] = c})
WritesOf(s) == {w \in wlog : w.by = s}
Holds(s) == guard[s] \in {"execute2", "pipeline"}
ConflictErrors ==
    {"TableVersionMismatched", "ConflictRetriesExhausted", "UnresolvableConflict"}

\* C1: an update_table_meta issued on a version that is no longer the stored
\* one never replaces the table meta: every successful update was built on
\* the version stored just before it and makes the next version, no two
\* successful updates were built on the same version, and a statement that
\* ended with a conflict error has published nothing.
C1_StaleUpdateNeverPublishes ==
    /\ \A w \in wlog : w.base = w.prev /\ w.now = w.prev + 1
    /\ \A w1, w2 \in wlog : w1.base = w2.base => w1 = w2
    /\ \A s \in Sessions : result[s] \in ConflictErrors => WritesOf(s) = {}

\* Two ADD COLUMN statements read the same version and both called
\* update_table_meta: one published, the other got the conflict error
C1_Witness ==
    \E s1, s2 \in AddColumns :
        /\ s1 # s2
        /\ pc[s1] = "done" /\ result[s1] = "ok"
        /\ pc[s2] = "done" /\ result[s2] = "TableVersionMismatched"
        /\ \E w \in WritesOf(s1) : w.base = tbl[s2].seq

\* C2: the snapshot readers see is the base snapshot or the whole new
\* snapshot of one successful commit: every publication replaces the visible
\* snapshot by that snapshot with all of the committing statement's removals
\* and additions applied (none of them for ADD COLUMN), the visible snapshot is
\* the one published last, and a statement that failed has published nothing.
C2_SnapshotAtomic ==
    /\ \A w \in wlog :
         w.after = (w.before \ plan[w.by].removed) \cup plan[w.by].added
    /\ IF wlog = {} THEN table.snapshot = InitBlocks
       ELSE \E w \in wlog : w.now = table.seq /\ table.snapshot = w.after
    /\ \A s \in Mutations : result[s] \notin {"none", "ok"} => WritesOf(s) = {}
    /\ \A s \in AddColumns : \A w \in WritesOf(s) : w.after = w.before

\* One mutation committed a change of the snapshot, after an ADD COLUMN had
\* published, and another mutation failed in its commit stage
C2_Witness ==
    \E s, t \in Mutations :
        /\ pc[s] = "done" /\ result[s] \in ConflictErrors
        /\ \E w \in WritesOf(t) : w.after # w.before
        /\ \E a \in AddColumns : WritesOf(a) # {}

\* C3: once a statement that created a lock revision has ended (execute2 has
\* returned an error, or the pipeline it built has finished and is dropped),
\* its revision is deleted; and delete_lock_revision is never issued twice for
\* it.
C3_LockReleasedOnce ==
    \A s \in Mutations :
        /\ dels[s] <= 1
        /\ pc[s] = "done" /\ Has(s, "try_lock") =>
             OwnRevs(s) = {} /\ dels[s] = 1
        /\ pc[s] = "done" => guard[s] \in {"none", "released"}

\* One UPDATE failed a check after it took the lock, the other statement
\* committed after a conflict, and both revisions are gone
C3_Witness ==
    /\ pc["u1"] = "done" /\ result["u1"] = "Unimplemented(predicate)"
    /\ guard["u1"] = "released" /\ dels["u1"] = 1
    /\ pc["d1"] = "done" /\ result["d1"] = "ok" /\ retries["d1"] >= 1
    /\ guard["d1"] = "released" /\ dels["d1"] = 1
    /\ lock_revs = {}

PlanningCalls ==
    {"support_row_id_column", "subquery_filter", "replace_subquery",
     "create_push_down_filters", "is_deterministic", "generate_update_list",
     "generate_stored_computed_list", "check_enterprise_enabled",
     "fast_update", "mutation_read_partitions", "build_physical_plan",
     "build_query_pipeline", "update_table_meta"}

\* C4: from the checks that follow try_lock to the end of the pipeline's
\* commit stage the statement's lock revision exists and its guard is owned
\* (by execute2, then by the pipeline); and no planning call is issued before
\* try_lock.
C4_LockHeldThroughout ==
    \A s \in Mutations :
        /\ pc[s] \in {"locked", "validated", "pipeline", "conflict", "finish"}
             => OwnRevs(s) # {} /\ Holds(s)
        /\ pc[s] \in {"pipeline", "conflict", "finish"} => guard[s] = "pipeline"
        /\ \A i \in DOMAIN calls[s] :
             calls[s][i] \in PlanningCalls =>
                 \E j \in 1..(i - 1) : calls[s][j] = "try_lock"

\* A statement is in its commit stage after a conflict, holding the lock
C4_Witness ==
    \E s \in Mutations :
        /\ pc[s] = "conflict" /\ retries[s] >= 1
        /\ OwnRevs(s) # {} /\ guard[s] = "pipeline"

\* C5: two mutations never hold the table lock at once.
C5_LockExclusive ==
    \A s, t \in Mutations : s # t => ~(Holds(s) /\ Holds(t))

\* One mutation holds the lock in its pipeline and the other's try_lock has
\* ended with an error
C5_Witness ==
    \E s, t \in Mutations :
        /\ guard[s] = "pipeline" /\ pc[s] = "pipeline"
        /\ pc[t] = "done" /\ result[t] = "TableLockExpired"

\* C6: the commit stage retries at most MaxRetries times, so it issues at
\* most MaxRetries + 1 update_table_meta calls; when the retries are used
\* up it ends with the conflict error, having published nothing.
C6_RetriesBounded ==
    \A s \in Mutations :
        /\ retries[s] <= MaxRetries
        /\ Count(s, "update_table_meta") <= MaxRetries + 1
        /\ result[s] = "ConflictRetriesExhausted" =>
             /\ retries[s] = MaxRetries
             /\ Count(s, "update_table_meta") = MaxRetries + 1
             /\ WritesOf(s) = {}

\* A commit stage has used up its retries and ended with the conflict error
C6_Witness ==
    \E s \in Mutations :
        pc[s] = "done" /\ result[s] = "ConflictRetriesExhausted"

\* another mutation has committed on the version u was planned on, or later
CommittedSince(u) ==
    {d \in Mutations \ {u} : \E w \in WritesOf(d) : w.prev >= plan[u].base}

\* C7: when a mutation has just committed (it still holds the lock) and
\* another mutation had committed on top of the version it was planned on,
\* its first update_table_meta was not its last, and the visible snapshot
\* holds the effects of both: the blocks either removed are gone, the blocks
\* it added are there, and so are the blocks the other added, unless it
\* removed them. A commit ends as an unresolvable conflict only if another
\* mutation has removed a block it removes.
C7_BothEffects ==
    \A u \in Mutations :
        /\ pc[u] = "finish" /\ result[u] = "ok" =>
             /\ plan[u].removed \cap table.snapshot = {}
             /\ plan[u].added \subseteq table.snapshot
             /\ \A d \in CommittedSince(u) :
                  /\ Count(u, "update_table_meta") >= 2
                  /\ retries[u] >= 1
                  /\ plan[d].removed \cap table.snapshot = {}
                  /\ (plan[d].added \ plan[u].removed) \subseteq table.snapshot
        /\ result[u] = "UnresolvableConflict" =>
             \E d \in CommittedSince(u) :
                 plan[d].removed \cap plan[u].removed # {}

\* The UPDATE was planned on the version the DELETE then committed on; its
\* first attempt conflicted, its second published block 11 in place of block
\* 1, and block 2, which the DELETE removed, stays removed
C7_Witness ==
    /\ pc["u1"] = "finish" /\ result["u1"] = "ok"
    /\ \E w \in WritesOf("d1") : w.prev = plan["u1"].base
    /\ Count("u1", "update_table_meta") = 2
    /\ plan["u1"].removed = {1} /\ plan["d1"].removed = {2}
    /\ table.snapshot = {11}

\* C8: when fast_update answers None, execute2 reads no partitions, builds no
\* plan, and returns the empty pipeline with the lock guard; no
\* update_table_meta is issued for the statement, it publishes nothing, and it
\* ends with success.
C8_NoMatchIsNoOp ==
    \A s \in Mutations :
        fast[s] = "None" =>
            /\ ~Has(s, "mutation_read_partitions")
            /\ ~Has(s, "build_physical_plan")
            /\ ~Has(s, "build_query_pipeline")
            /\ ~Has(s, "update_table_meta")
            /\ plan[s] = EmptyPipeline
            /\ WritesOf(s) = {}
            /\ pc[s] \in {"pipeline", "done"}
            /\ result[s] = IF pc[s] = "done" THEN "ok" ELSE "none"

\* An UPDATE whose fast_update answered None has returned the empty
\* pipeline, which has run and released the lock; the snapshot is unchanged
C8_Witness ==
    /\ fast["u1"] = "None" /\ pc["u1"] = "done" /\ result["u1"] = "ok"
    /\ Has("u1", "fast_update") /\ Has("u1", "add_lock_guard")
    /\ guard["u1"] = "released" /\ table.snapshot = InitBlocks

\* C9: no block the recluster pipeline emits has more than
\* max_rows_per_block rows (nor is one empty), the rows emitted and the rows
\* still in the merge sort always add up to the task's total_rows, and when
\* the pipeline is done the emitted blocks hold total_rows rows exactly.
C9_ReclusterBlocks ==
    /\ \A i \in DOMAIN rc.emitted :
         rc.emitted[i] >= 1 /\ rc.emitted[i] <= rc.in.max_rows_per_block
    /\ rc.pc \in {"running", "done"} /\ rc.in.tasks = 1 =>
         SumSeq(rc.emitted) + rc.remaining = rc.in.total_rows
    /\ rc.pc = "done" /\ rc.in.tasks = 1 =>
         /\ SumSeq(rc.emitted) = rc.in.total_rows
         /\ Len(rc.emitted) = rc.output_block_num

\* A task has been emitted as several blocks, the first ones full and the
\* last one shorter
C9_Witness ==
    /\ rc.pc = "done" /\ rc.in.tasks = 1
    /\ Len(rc.emitted) >= 3
    /\ rc.emitted[1] = rc.final_block_size
    /\ rc.emitted[Len(rc.emitted)] < rc.final_block_size

\* C10: for one task, block_num is the integer quotient of total_bytes * 80
\* by max_bytes_per_block * 100, or 1 if that is 0, and final_block_size is the
\* smaller of the integer quotient total_rows / block_num and
\* max_rows_per_block; so block_num >= 1 and final_block_size <=
\* max_rows_per_block.
C10_BlockSizing ==
    rc.pc # "init" /\ rc.in.tasks = 1 =>
        LET in == rc.in
            bn == rc.block_num
            fbs == rc.final_block_size
            den == in.max_bytes_per_block * 100
            num == in.total_bytes * 80
        IN
        /\ bn >= 1
        /\ fbs >= 0 /\ fbs <= in.max_rows_per_block
        /\ num < (bn + 1) * den
        /\ bn > 1 => bn * den <= num
        /\ fbs * bn <= in.total_rows
        /\ fbs < in.max_rows_per_block => in.total_rows < (fbs + 1) * bn

\* A task of several blocks, whose block size is set by the rows per block
\* of the estimate and not by max_rows_per_block
C10_Witness ==
    /\ rc.pc = "running" /\ rc.in.tasks = 1
    /\ rc.block_num >= 2
    /\ rc.final_block_size >= 1
    /\ rc.final_block_size < rc.in.max_rows_per_block

\* C11: when the source is built for one task, the pipeline is resized, after
\* the merge sort and before the serialize stage, to the smaller of
\* max_threads and the least number of blocks of final_block_size rows that
\* hold total_rows rows; so the serialize stage has at least one worker, never
\* more than max_threads, and never more than there are output blocks.
C11_ResizeWidth ==
    /\ rc.pc \in {"running", "done"} /\ rc.in.tasks = 1 =>
         LET n == rc.output_block_num
             fbs == rc.final_block_size IN
         /\ n * fbs >= rc.in.total_rows
         /\ (n - 1) * fbs < rc.in.total_rows
         /\ rc.width >= 1
         /\ rc.width <= rc.in.max_threads
         /\ rc.width <= n
         /\ rc.width = n \/ rc.width = rc.in.max_threads
         /\ rc.stages[Len(rc.stages)] = "SerializeBlock"
         /\ rc.stages[Len(rc.stages) - 1] = "MergeSort"
    /\ rc.pc = "done" /\ rc.in.tasks = 1 => rc.width <= Len(rc.emitted)

\* A task of more output blocks than max_threads has run to its end at the
\* width max_threads
C11_Witness ==
    /\ rc.pc = "done" /\ rc.in.tasks = 1
    /\ rc.in.max_threads >= 2
    /\ Len(rc.emitted) > rc.in.max_threads
    /\ rc.width = rc.in.max_threads

\* C12: with no task the source is one EmptySource and nothing else; with
\* one task it is the read stages, the merge sort and, when the build returns,
\* the serialize stage; with two tasks or more the build returns the Internal
\* error and the pipeline has no stage.
C12_OneTaskPerNode ==
    rc.pc # "init" =>
        /\ rc.in.tasks = 0 =>
             /\ rc.result = "ok" /\ rc.stages = <<"EmptySource">>
             /\ rc.width = 1 /\ rc.emitted = <<>>
        /\ rc.in.tasks = 1 =>
             /\ rc.result \in {"ok", "panic"}
             /\ rc.stages[1] = "ReadData"
             /\ rc.result = "ok" =>
                  rc.stages = ReadStages(rc.in) \o <<"MergeSort", "SerializeBlock">>
        /\ rc.in.tasks >= 2 =>
             /\ rc.result = "Internal" /\ rc.pc = "failed"
             /\ rc.stages = <<>> /\ rc.emitted = <<>>

\* A source given the most tasks has been refused
C12_Witness ==
    /\ rc.in.tasks = MaxTasks /\ rc.pc = "failed" /\ rc.result = "Internal"

\* C13: the recluster sink is one aggregator and one commit sink at width 1;
\* the aggregator is given the blocks that remain and the blocks the task
\* consumed, which together are the base snapshot; and the snapshot the commit
\* publishes is the base less the consumed blocks plus the blocks written, one
\* per emitted block, so every remained block is still in it and no consumed
\* block is.
C13_ReclusterCommit ==
    /\ rc.pc \in {"running", "done", "committed"} =>
         /\ rc.sink = <<"ReclusterAggregator", "CommitSink">>
         /\ rc.sink_width = 1
         /\ rc.agg.removed = rc.in.consumed
         /\ rc.agg.remained \cap rc.agg.removed = {}
         /\ rc.agg.remained \cup rc.agg.removed = InitBlocks
    /\ rc.pc \in {"panic", "failed"} => rc.sink = <<>>
    /\ rc.pc # "committed" => table.snapshot = InitBlocks
    /\ rc.pc = "committed" =>
         /\ table.snapshot =
              (InitBlocks \ rc.in.consumed) \cup ReclusterNewBlocks(rc)
         /\ rc.agg.remained \subseteq table.snapshot
         /\ rc.in.consumed \cap table.snapshot = {}
         /\ Cardinality(table.snapshot \ InitBlocks) = Len(rc.emitted)

\* A task that consumed one of the two base blocks has committed two new
\* blocks: the other base block is still there
C13_Witness ==
    /\ rc.pc = "committed"
    /\ rc.in.consumed = {1}
    /\ Len(rc.emitted) = 2
    /\ table.snapshot = {2, ReclusterBlock(1), ReclusterBlock(2)}

\* C14: in the partition list the reader is handed no lazy partition stands
\* before an eager one; the reader decides by the last partition alone, and
\* that decision is right for the whole list: it builds the pruner and the
\* full file reader exactly when the last partition is a ParquetFiles part,
\* which is exactly when the list holds one, so no ParquetFiles part is ever
\* met without a full file reader.
C14_LazyPartsLast ==
    /\ rd.pc \notin {"idle", "init"} =>
         \A i, j \in DOMAIN rd.parts :
             i < j => ~(IsLazy(rd.parts[i]) /\ ~IsLazy(rd.parts[j]))
    /\ rd.pc \in {"reading", "done", "failed"} =>
         LET last_is_files ==
                 rd.parts # <<>> /\ rd.parts[Len(rd.parts)].kind = "ParquetFiles"
         IN
         /\ rd.pruner <=> last_is_files
         /\ rd.full_file_reader <=> last_is_files
         /\ rd.has_files_part <=> \E i \in DOMAIN rd.parts : IsLazy(rd.parts[i])
         /\ rd.row_group_reader
    /\ rd.pc # "failed"

\* A list of row groups followed by batches of files has been read to its
\* end, with the pruner and the full file reader
C14_Witness ==
    /\ rd.pc = "done" /\ rd.result = "ok"
    /\ rd.in.n_row_groups >= 2 /\ rd.in.n_files >= 2
    /\ Len(rd.read) = Len(rd.parts)
    /\ rd.pruner /\ rd.full_file_reader

IoCalls ==
    {"create_table_lock", "try_lock", "fast_update",
     "mutation_read_partitions", "update_table_meta"}

\* C15: when an UPDATE is rejected for a predicate that is not
\* deterministic, the error is Unimplemented and the statement has issued no
\* metadata-store or storage operation: no lock revision was created (so none
\* is deleted), and fast_update, partition pruning and commit were not called.
C15_RejectedBeforeIO ==
    \A s \in Mutations :
        "is_deterministic" \in failed[s] =>
            /\ ErrorKind(result[s]) = "Unimplemented"
            /\ \A c \in IoCalls : ~Has(s, c)
            /\ dels[s] = 0 /\ guard[s] = "none"

PredicateCalls ==
    {"support_row_id_column", "subquery_filter", "replace_subquery",
     "create_push_down_filters", "is_deterministic", "generate_update_list",
     "generate_stored_computed_list", "check_enterprise_enabled",
     "fast_update", "mutation_read_partitions"}

\* C16: an UPDATE whose target table is not a fuse table is refused for its
\* engine with the TableEngineNotSupported kind of error, and has handled no
\* predicate, made no license check, read no snapshot and published nothing.
C16_EngineCheckedFirst ==
    \A s \in Mutations :
        tbl[s] # NoTable /\ tbl[s].engine # "FUSE" =>
            /\ "downcast_ref_FuseTable" \in failed[s] =>
                 ErrorKind(result[s]) = "TableEngineNotSupported"
            /\ \A c \in PredicateCalls : ~Has(s, c)
            /\ WritesOf(s) = {}

\* C17: an UPDATE with a subquery filter on a table without a row id column
\* ends with the Unimplemented kind of error, before the predicate is
\* rewritten and before fast_update or a commit; it publishes nothing.
C17_RowIdUnimplemented ==
    \A s \in Mutations :
        "support_row_id_column" \in failed[s] =>
            /\ pc[s] = "done"
            /\ ErrorKind(result[s]) = "Unimplemented"
            /\ ~Has(s, "subquery_filter") /\ ~Has(s, "replace_subquery")
            /\ ~Has(s, "fast_update") /\ ~Has(s, "update_table_meta")
            /\ WritesOf(s) = {}

\* C18: when the entitlement check of a statement with computed columns
\* fails, the statement has ended with the license error, without fast_update
\* (UPDATE), add_column (ADD COLUMN) or update_table_meta, and has published
\* nothing; the check is made exactly when the computed list is known not to
\* be empty.
C18_LicenseFailsClosed ==
    \A s \in Sessions :
        /\ "check_enterprise_enabled" \in failed[s] =>
             /\ pc[s] = "done" /\ result[s] = "LicenseKeyInvalid"
             /\ ~Has(s, "fast_update") /\ ~Has(s, "add_column")
             /\ ~Has(s, "update_table_meta")
             /\ WritesOf(s) = {}
        /\ Has(s, "check_enterprise_enabled") <=> computed[s] = "nonempty"
        /\ computed[s] = "empty" => "check_enterprise_enabled" \notin failed[s]

\* An UPDATE with a stored computed column and no entitlement has ended with
\* the license error and released its lock; the table is as it was
C18_Witness ==
    /\ "check_enterprise_enabled" \in failed["u1"]
    /\ computed["u1"] = "nonempty"
    /\ pc["u1"] = "done" /\ result["u1"] = "LicenseKeyInvalid"
    /\ guard["u1"] = "released"
    /\ table.seq = 1

\* C19: a statement that has ended after one of its fallible steps returned
\* an error has given its caller an error.
C19_NoSilentFailure ==
    \A s \in Sessions :
        pc[s] = "done" /\ failed[s] # {} => result[s] \notin {"ok", "none"}

\* the last call of the statement s is c, and the one before is b
EndsWith(s, b, c) ==
    /\ Len(calls[s]) >= 2
    /\ calls[s][Len(calls[s])] = c
    /\ calls[s][Len(calls[s]) - 1] = b

\* C20: an ADD COLUMN that ended with success after a reply with share
\* table info has saved the version it published, by a
\* save_share_table_info that follows its update_table_meta; nothing is saved
\* for a statement whose update_table_meta failed or was not issued, nor
\* after a reply without share table info.
C20_SharePropagated ==
    /\ \A s \in AddColumns :
         /\ pc[s] = "done" /\ result[s] = "ok" /\ reply[s] = "some" =>
              /\ \E w \in WritesOf(s) : w.now \in shared
              /\ EndsWith(s, "update_table_meta", "save_share_table_info")
         /\ WritesOf(s) = {} \/ reply[s] = "none" =>
              ~Has(s, "save_share_table_info")
    /\ \A v \in shared :
         \E w \in wlog : w.now = v /\ w.by \in AddColumns /\ reply[w.by] = "some"

\* One ADD COLUMN on a shared table has succeeded and its version is saved;
\* the other lost the race and nothing was saved for it
C20_Witness ==
    /\ pc["a1"] = "done" /\ result["a1"] = "ok" /\ reply["a1"] = "some"
    /\ \E w \in WritesOf("a1") : shared = {w.now}
    /\ pc["a2"] = "done" /\ result["a2"] = "TableVersionMismatched"

----------------------------------------------------------------------------
(* The components below run apart from the statements, which stay idle *)

baseVars == <<table, lock_revs, next_rev, pc, tbl, plan, fast, retries, result,
              guard, calls, dels, wlog, shared, focus, rc, rd, failed,
              computed, reply, label>>

InitIdle ==
    /\ table = InitTable("FUSE")
    /\ lock_revs = {}
    /\ next_rev = 1
    /\ pc = [s \in Sessions |-> "start"]
    /\ tbl = [s \in Sessions |-> NoTable]
    /\ plan = [s \in Sessions |-> NoPlan]
    /\ fast = [s \in Sessions |-> ""]
    /\ retries = [s \in Sessions |-> 0]
    /\ result = [s \in Sessions |-> "none"]
    /\ guard = [s \in Sessions |-> "none"]
    /\ calls = [s \in Sessions |-> <<>>]
    /\ dels = [s \in Sessions |-> 0]
    /\ wlog = {}
    /\ shared = {}
    /\ failed = [s \in Sessions |-> {}]
    /\ computed = [s \in Sessions |-> "unknown"]
    /\ reply = [s \in Sessions |-> "none"]
    /\ label = [s \in Sessions |-> "unknown"]
    /\ focus = "u1"
    /\ rc = IdleRc
    /\ rd = IdleRd

----------------------------------------------------------------------------
(* The sort row converter: sort/rows/common.rs.  The sort transforms create
   one converter per sort description and hand it the sort columns of each
   block; the keys it returns are compared as byte strings. *)

\* largest magnitude of an Int8 value of a block
MaxInt == 1
\* longest string inside a Variant value
MaxStrLen == 2
\* rows of one block
NumRows == 2
\* bytes per block of the variable-length encoding (32 in the row format)
BlockSize == 2

\* the schema of the blocks: field 0 is Nullable(Int8), field 1 is
\* Nullable(Variant)
Schema == <<"Int8", "Variant">>

\* SortColumnDescription: offset, asc, nulls_first; an offset of Len(Schema)
\* is outside the schema
SortColumnDescriptions ==
    [offset : 0..Len(Schema), asc : BOOLEAN, nulls_first : BOOLEAN]

\* one sort key, or two sort keys on different columns
SortDescs ==
    {<<d>> : d \in SortColumnDescriptions} \cup
    {p \in SortColumnDescriptions \X SortColumnDescriptions :
        p[1].offset # p[2].offset}

Bytes(n) == UNION {[1..k -> {1, 2}] : k \in 0..n}

\* the JSON-like values of the Variant column
JsonValues ==
    [kind : {"bool"}, val : {0, 1}] \cup
    [kind : {"number"}, val : {0, 1}] \cup
    [kind : {"string"}, val : Bytes(MaxStrLen)]

\* a cell is a validity bit and a value; the value under a cleared bit is
\* not looked at
Int8Cells == {[valid |-> FALSE, data |-> 0]} \cup
             [valid : {TRUE}, data : (0 - MaxInt)..MaxInt]

VariantCells == {[valid |-> FALSE, data |-> [kind |-> "bool", val |-> 0]]} \cup
                [valid : {TRUE}, data : JsonValues]

\* BlockEntry: Value::Scalar (one cell) or Value::Column (NumRows cells)
Entries(cells) ==
    [scalar : {TRUE}, cells : [1..1 -> cells]] \cup
    [scalar : {FALSE}, cells : [1..NumRows -> cells]]

Blocks == {<<a, b>> : a \in Entries(Int8Cells), b \in Entries(VariantCells)}

\* jsonb::convert_to_comparable: a level byte that orders the kinds, then
\* the value
ConvertToComparable(v) ==
    CASE v.kind = "string" -> <<5>> \o v.val
      [] v.kind = "number" -> <<4, v.val>>
      [] v.val = 0 -> <<2>>
      [] OTHER -> <<3>>

\* (mutant) a transcoded Variant column is rebuilt without its validity
ConvertEntryDropValidity(entry, data_type, num_rows) ==
    LET transcode(c) ==
            IF data_type # "Variant" THEN c
            ELSE IF c.valid
                 THEN [valid |-> TRUE, data |-> ConvertToComparable(c.data)]
                 ELSE [valid |-> TRUE, data |-> <<>>]
    IN  IF entry.scalar
        THEN [r \in 1..num_rows |-> transcode(entry.cells[1])]
        ELSE [r \in 1..Len(entry.cells) |-> transcode(entry.cells[r])]

\* Lines 71-119: one column of convert's argument, as the encoder gets it.
\* A scalar is repeated num_rows times (a Variant scalar transcoded first);
\* a Variant column is transcoded row by row, a row whose validity bit is
\* cleared gets no bytes and the validity is kept; any other column is
\* cloned
ConvertEntry(entry, data_type, num_rows) ==
    LET transcode(c) ==
            IF data_type # "Variant" THEN c
            ELSE IF c.valid
                 THEN [valid |-> TRUE, data |-> ConvertToComparable(c.data)]
                 ELSE [valid |-> FALSE, data |-> <<>>]
    IN  IF entry.scalar
        THEN [r \in 1..num_rows |-> transcode(entry.cells[1])]
        ELSE [r \in 1..Len(entry.cells) |-> transcode(entry.cells[r])]

NullSentinel(nulls_first) == IF nulls_first THEN 0 ELSE 255

Invert(bytes) == [i \in DOMAIN bytes |-> 255 - bytes[i]]

\* fixed-width encoding of an Int8: a validity byte, then the value with its
\* sign bit flipped, inverted for a descending key
EncodeFixed(c, asc) ==
    LET b == <<(c.data + 128) % 256>>
    IN  <<1>> \o (IF asc THEN b ELSE Invert(b))

RECURSIVE EncodeBlocks(_)
\* the blocks of a non-empty byte string: full blocks followed by the
\* continuation byte, the last block padded and followed by its length
EncodeBlocks(b) ==
    IF Len(b) <= BlockSize
    THEN b \o [i \in 1..(BlockSize - Len(b)) |-> 0] \o <<Len(b)>>
    ELSE SubSeq(b, 1, BlockSize) \o <<255>> \o
         EncodeBlocks(SubSeq(b, BlockSize + 1, Len(b)))

\* variable-length encoding: sentinel 1 for the empty string, 2 and the
\* blocks otherwise, everything inverted for a descending key
EncodeVariable(c, asc) ==
    LET e == IF c.data = <<>> THEN <<1>> ELSE <<2>> \o EncodeBlocks(c.data)
    IN  IF asc THEN e ELSE Invert(e)

\* one key segment of the row format
EncodeField(field, c) ==
    IF ~c.valid
    THEN IF field.data_type = "Int8"
         THEN <<NullSentinel(field.nulls_first), 0>>
         ELSE <<NullSentinel(field.nulls_first)>>
    ELSE IF field.data_type = "Int8"
         THEN EncodeFixed(c, field.asc)
         ELSE EncodeVariable(c, field.asc)

RECURSIVE EncodeRow(_, _, _, _)
EncodeRow(fields, columns, r, i) ==
    IF i > Len(fields) THEN <<>>
    ELSE EncodeField(fields[i], columns[i][r]) \o
         EncodeRow(fields, columns, r, i + 1)

\* convert_columns: the key of every row
ConvertColumns(fields, columns, num_rows) ==
    [r \in 1..num_rows |-> EncodeRow(fields, columns, r, 1)]

\* Lines 57-69: create.  output_schema.field(d.offset) indexes the schema's
\* fields; nothing on the way returns an error for an offset
Create(descs) ==
    IF \E i \in DOMAIN descs : descs[i].offset >= Len(Schema)
    THEN [pc |-> "panic", result |-> "panic", sort_fields |-> <<>>]
    ELSE [pc |-> "created", result |-> "ok",
          sort_fields |->
              [i \in DOMAIN descs |->
                  [data_type |-> Schema[descs[i].offset + 1],
                   asc |-> descs[i].asc,
                   nulls_first |-> descs[i].nulls_first]]]

\* Lines 71-121: convert
Convert(fields, columns, num_rows) ==
    ConvertColumns(fields,
                   [i \in DOMAIN columns |->
                       ConvertEntry(columns[i], fields[i].data_type, num_rows)],
                   num_rows)

NewConv(descs) == [pc |-> "start", sort |-> descs, sort_fields |-> <<>>,
                   result |-> "none", block |-> <<>>, keys |-> <<>>]

CvCreate ==
    /\ conv.pc = "start"
    /\ LET c == Create(conv.sort)
       IN  conv' = [conv EXCEPT !.pc = c.pc, !.result = c.result,
                                !.sort_fields = c.sort_fields]
    /\ UNCHANGED <<baseVars, ctx, pt>>

\* the transform hands convert the block's columns at the sort offsets
CvConvert ==
    /\ conv.pc = "created"
    /\ \E block \in Blocks :
         conv' = [conv EXCEPT
                    !.pc = "converted",
                    !.block = block,
                    !.keys = Convert(conv.sort_fields,
                                     [i \in DOMAIN conv.sort |->
                                         block[conv.sort[i].offset + 1]],
                                     NumRows)]
    /\ UNCHANGED <<baseVars, ctx, pt>>

InitRows ==
    /\ InitIdle
    /\ conv \in {NewConv(d) : d \in SortDescs}
    /\ ctx = IdleCtx
    /\ pt = IdlePt

NextRows == CvCreate \/ CvConvert

SpecRows == InitRows /\ [][NextRows]_vars


\* the order of two byte strings, as slices compare
RECURSIVE CompareBytes(_, _)
CompareBytes(x, y) ==
    IF x = <<>> /\ y = <<>> THEN "eq"
    ELSE IF x = <<>> THEN "lt"
    ELSE IF y = <<>> THEN "gt"
    ELSE IF x[1] < y[1] THEN "lt"
    ELSE IF x[1] > y[1] THEN "gt"
    ELSE CompareBytes(Tail(x), Tail(y))

Flip(o) == CASE o = "lt" -> "gt" [] o = "gt" -> "lt" [] OTHER -> "eq"

\* the order of two values of a column: integers by value, JSON-like values
\* by kind (bool, number, string) and then by value
JsonRank(v) == CASE v.kind = "bool" -> 1 [] v.kind = "number" -> 2 [] OTHER -> 3

ValueOrder(data_type, a, b) ==
    LET ints(x, y) == IF x < y THEN "lt" ELSE IF x > y THEN "gt" ELSE "eq"
    IN  IF data_type = "Int8" THEN ints(a, b)
        ELSE IF JsonRank(a) # JsonRank(b) THEN ints(JsonRank(a), JsonRank(b))
        ELSE IF a.kind = "string" THEN CompareBytes(a.val, b.val)
        ELSE ints(a.val, b.val)

\* the order of two cells under one sort key
KeyOrder(d, a, b) ==
    CASE ~a.valid /\ ~b.valid -> "eq"
      [] ~a.valid -> IF d.nulls_first THEN "lt" ELSE "gt"
      [] ~b.valid -> IF d.nulls_first THEN "gt" ELSE "lt"
      [] OTHER -> IF d.asc THEN ValueOrder(Schema[d.offset + 1], a.data, b.data)
                  ELSE Flip(ValueOrder(Schema[d.offset + 1], a.data, b.data))

\* the cell of row r in a block entry
Cell(entry, r) == IF entry.scalar THEN entry.cells[1] ELSE entry.cells[r]

\* the order of rows r1 and r2 of a block under the sort description
RECURSIVE RowOrder(_, _, _, _, _)
RowOrder(descs, block, r1, r2, i) ==
    IF i > Len(descs) THEN "eq"
    ELSE LET e == block[descs[i].offset + 1]
             o == KeyOrder(descs[i], Cell(e, r1), Cell(e, r2))
         IN  IF o # "eq" THEN o ELSE RowOrder(descs, block, r1, r2, i + 1)

\* C21: for any two rows and any sort description, the byte order of the keys
\* convert returns is the order of the rows under the sort description,
\* nulls placed first or last as each key says.
C21_KeysOrderAsRows ==
    conv.pc = "converted" =>
        \A r1, r2 \in 1..NumRows :
            CompareBytes(conv.keys[r1], conv.keys[r2]) =
                RowOrder(conv.sort, conv.block, r1, r2, 1)

\* two keys, the first descending on the Variant column with nulls last, the
\* first row's Variant a string whose comparable form is longer than one
\* block, the second row's NULL;
\* the rows differ and the keys order them
C21_Witness ==
    /\ conv.pc = "converted"
    /\ Len(conv.sort) = 2
    /\ conv.sort[1].offset = 1 /\ ~conv.sort[1].asc /\ ~conv.sort[1].nulls_first
    /\ ~conv.block[2].scalar
    /\ conv.block[2].cells[1].valid
    /\ conv.block[2].cells[1].data.kind = "string"
    /\ Len(conv.block[2].cells[1].data.val) = MaxStrLen
    /\ ~conv.block[2].cells[2].valid
    /\ CompareBytes(conv.keys[1], conv.keys[2]) = "lt"

\* C22: create with a sort key whose offset is outside the schema's fields
\* returns an error value, it neither aborts nor yields an encoder; with
\* every offset in range it succeeds with one sort field per sort key, in
\* order, carrying the key's asc and nulls_first.
C22_CreateChecksOffsets ==
    conv.pc \notin {"idle", "start"} =>
        IF \E i \in DOMAIN conv.sort : conv.sort[i].offset >= Len(Schema)
        THEN conv.result \notin {"ok", "panic"} /\ conv.sort_fields = <<>>
        ELSE /\ conv.result = "ok"
             /\ Len(conv.sort_fields) = Len(conv.sort)
             /\ \A i \in DOMAIN conv.sort :
                  /\ conv.sort_fields[i].asc = conv.sort[i].asc
                  /\ conv.sort_fields[i].nulls_first = conv.sort[i].nulls_first
                  /\ conv.sort_fields[i].data_type =
                         Schema[conv.sort[i].offset + 1]

----------------------------------------------------------------------------
(* The caching table context: CtxDelegation of get_table_bind_test.rs.  The
   planner of one statement asks it for the table of every table reference,
   one call after the other; tasks sharing the context may call it at the
   same time.  A call is cut where it takes the cache's mutex and where it
   awaits the catalog. *)

\* get_table calls on one context
MaxCallers == 3

Callers == 1..MaxCallers

\* (tenant, database, table) keys
Keys == {"t1", "t2"}

\* no table object
NoObj == 0

IdleCall == [pc |-> "idle", key |-> "", ret |-> NoObj, err |-> "", via |-> ""]

\* Lines 357-365: CtxDelegation::new, an empty cache and both counters 0;
\* exists are the keys the catalog has a table for
NewCtx(mode, exists) ==
    [pc |-> "run", mode |-> mode, exists |-> exists,
     cache |-> [k \in Keys |-> NoObj],
     table_from_cache |-> 0, table_without_cache |-> 0,
     loads |-> [k \in Keys |-> 0], next_obj |-> 1,
     call |-> [c \in Callers |-> IdleCall]]

InFlight(c) == ctx.call[c].pc \in {"hit", "miss", "await"}

\* (mutant) the loaded table is not put into the cache
CacheInsertNone(cache, key, obj) == cache

\* Lines 646-647: guard.insert(table_meta_key, tbl)
CacheInsert(cache, key, obj) == [cache EXCEPT ![key] = obj]

\* Lines 625-629: the key is built and looked up under the mutex, which is
\* released at the end of the block.  The planner makes its calls in turn and
\* stops at the first error
GtContainsKey(c) ==
    /\ ctx.pc = "run"
    /\ ctx.call[c].pc = "idle"
    /\ ctx.mode = "planner" =>
          /\ \A d \in Callers : ~InFlight(d) /\ ctx.call[d].pc # "failed"
          /\ \A d \in 1..(c - 1) : ctx.call[d].pc = "done"
    /\ \E k \in Keys :
         ctx' = [ctx EXCEPT
                   !.call[c].key = k,
                   !.call[c].pc = IF ctx.cache[k] # NoObj THEN "hit" ELSE "miss"]
    /\ UNCHANGED <<baseVars, conv, pt>>

\* Lines 630-637: the cache-hit path counts the call and takes the mutex
\* again for the get
GtFromCache(c) ==
    /\ ctx.call[c].pc = "hit"
    /\ LET k == ctx.call[c].key
       IN  ctx' = [ctx EXCEPT
                     !.table_from_cache = @ + 1,
                     !.call[c].via = "cache",
                     !.call[c].ret = ctx.cache[k],
                     !.call[c].err = IF ctx.cache[k] = NoObj
                                     THEN "Internal" ELSE "",
                     !.call[c].pc = IF ctx.cache[k] = NoObj
                                    THEN "failed" ELSE "done"]
    /\ UNCHANGED <<baseVars, conv, pt>>

\* Lines 639-644: the miss path counts the call and asks the catalog
GtWithoutCache(c) ==
    /\ ctx.call[c].pc = "miss"
    /\ ctx' = [ctx EXCEPT
                 !.table_without_cache = @ + 1,
                 !.loads[ctx.call[c].key] = @ + 1,
                 !.call[c].via = "catalog",
                 !.call[c].pc = "await"]
    /\ UNCHANGED <<baseVars, conv, pt>>

\* Lines 641-648: the catalog answers with an error, which "?" returns, or
\* with a new table object, which is put into the cache and returned
GtLoaded(c) ==
    /\ ctx.call[c].pc = "await"
    /\ LET k == ctx.call[c].key
       IN  IF k \in ctx.exists
           THEN ctx' = [ctx EXCEPT
                          !.cache = CacheInsert(ctx.cache, k, ctx.next_obj),
                          !.next_obj = @ + 1,
                          !.call[c].ret = ctx.next_obj,
                          !.call[c].pc = "done"]
           ELSE ctx' = [ctx EXCEPT
                          !.call[c].err = "UnknownTable",
                          !.call[c].pc = "failed"]
    /\ UNCHANGED <<baseVars, conv, pt>>

InitCtx ==
    /\ InitIdle
    /\ conv = IdleConv
    /\ pt = IdlePt
    /\ ctx \in {NewCtx(m, e) : m \in {"planner", "tasks"}, e \in SUBSET Keys}

NextCtx ==
    \/ \E c \in Callers : GtContainsKey(c)
    \/ \E c \in Callers : GtFromCache(c)
    \/ \E c \in Callers : GtWithoutCache(c)
    \/ \E c \in Callers : GtLoaded(c)

SpecCtx == InitCtx /\ [][NextCtx]_vars

\* the calls for key k that have returned, and those served from the cache
Returned(k) ==
    {c \in Callers : ctx.call[c].key = k /\ ctx.call[c].pc \in {"done", "failed"}}

CacheHits(k) == {c \in Returned(k) : ctx.call[c].via = "cache"}

\* C23: while one statement is planned, the calls for one key reach the
\* catalog at most once: of k calls that have returned exactly one was loaded
\* from the catalog and k - 1 were served from the cache, the counters say so
\* (three references: 1 and 2), and every call returned the same table object.
C23_SameTableOnce ==
    ctx.pc = "run" /\ ctx.mode = "planner" =>
        /\ \A k \in Keys :
             /\ ctx.loads[k] <= 1
             /\ Returned(k) # {} =>
                  /\ ctx.loads[k] = 1
                  /\ Cardinality(CacheHits(k)) = Cardinality(Returned(k)) - 1
             /\ \A c, d \in Returned(k) :
                  ctx.call[c].pc = "done" /\ ctx.call[d].pc = "done" =>
                      ctx.call[c].ret = ctx.call[d].ret /\ ctx.call[c].ret # NoObj
        /\ (\A c \in Callers : ~InFlight(c)) =>
             /\ ctx.table_without_cache =
                   Cardinality({k \in Keys : Returned(k) # {}})
             /\ ctx.table_from_cache =
                   Cardinality(UNION {CacheHits(k) : k \in Keys})

\* three references to one table: one load, two cache hits
C23_Witness ==
    /\ ctx.pc = "run" /\ ctx.mode = "planner"
    /\ Cardinality({c \in Returned("t1") : ctx.call[c].pc = "done"}) = 3
    /\ ctx.table_without_cache = 1
    /\ ctx.table_from_cache = 2

\* C30: however concurrent get_table calls on the caching context interleave,
\* table_without_cache never exceeds the number of distinct keys requested,
\* once every call has returned table_from_cache + table_without_cache is
\* the number of calls that returned a table, and no call returns the
\* Internal "Logical error".
C30_ConcurrentCallsLoadOnce ==
    ctx.pc = "run" =>
        /\ ctx.table_without_cache <=
               Cardinality({k \in Keys : \E c \in Callers : ctx.call[c].key = k})
        /\ (\A c \in Callers : ctx.call[c].pc \in {"done", "failed"}) =>
               ctx.table_from_cache + ctx.table_without_cache =
                   Cardinality({c \in Callers : ctx.call[c].pc = "done"})
        /\ \A c \in Callers : ctx.call[c].err # "Internal"

\* C24: an ADD COLUMN whose table is a VIEW or a STREAM, or lies in a database
\* that is not a NormalDB, or fails check_mutable, returns an error at once,
\* TableEngineNotSupported in the engine and database cases: it has built no
\* request and called no update_table_meta, it has fetched the table once,
\* and it has changed neither the table meta nor the version.
C24_AlterRefusedEarly ==
    \A s \in AddColumns :
        /\ pc[s] = "done"
        /\ tbl[s] # NoTable
        /\ \/ tbl[s].engine \in {"VIEW", "STREAM"}
           \/ failed[s] \cap {"check_mutable", "db_type"} # {}
        => /\ result[s] \in {"NotMutable", "TableEngineNotSupported"}
           /\ "check_mutable" \notin failed[s] =>
                 result[s] = "TableEngineNotSupported"
           /\ ~Has(s, "add_column")
           /\ ~Has(s, "update_table_meta")
           /\ Count(s, "get_table") = 1
           /\ WritesOf(s) = {}

\* an ADD COLUMN on a STREAM passed check_mutable and was refused; the table
\* is as it was created
C24_Witness ==
    /\ pc["a1"] = "done"
    /\ tbl["a1"].engine = "STREAM"
    /\ failed["a1"] = {"engine"}
    /\ result["a1"] = "TableEngineNotSupported"
    /\ table = InitTable("STREAM")

\* C25: for every task with total_rows >= 1 (and max_rows_per_block >= 1)
\* final_block_size is at least 1, also when total_rows is less than
\* block_num, so output_block_num never divides by zero and the merge sort is
\* never built with a block size of 0.
C25_FinalBlockSizePositive ==
    /\ rc.pc # "init"
    /\ rc.in.tasks = 1
    /\ rc.in.total_rows >= 1
    /\ rc.in.max_rows_per_block >= 1
    => /\ rc.final_block_size >= 1
       /\ rc.pc # "panic"
       /\ "MergeSort" \in {rc.stages[i] : i \in DOMAIN rc.stages} =>
              rc.final_block_size >= 1 /\ rc.partial_block_size >= 1

\* C26: for one task, partial_block_size is the smaller of final_block_size
\* and max_block_size when the pipeline has more than one output, and
\* final_block_size when it has one; it never exceeds final_block_size; and
\* the blocks the pipeline emits have final_block_size rows (the last one may
\* have fewer) whatever max_block_size is.
C26_PartialBlockSize ==
    rc.pc # "init" /\ rc.in.tasks = 1 =>
        LET fbs == rc.final_block_size
            pbs == rc.partial_block_size
            mbs == rc.in.max_block_size
        IN  /\ rc.in.output_len > 1 =>
                 pbs <= fbs /\ pbs <= mbs /\ pbs \in {fbs, mbs}
            /\ rc.in.output_len = 1 => pbs = fbs
            /\ pbs <= fbs
            /\ \A i \in 1..(Len(rc.emitted) - 1) : rc.emitted[i] = fbs

\* a pipeline with two outputs and max_block_size below final_block_size: the
\* partial blocks are capped, the emitted blocks are not
C26_Witness ==
    /\ rc.pc = "done" /\ rc.in.tasks = 1
    /\ rc.in.output_len > 1
    /\ rc.in.max_block_size < rc.final_block_size
    /\ rc.partial_block_size = rc.in.max_block_size
    /\ Len(rc.emitted) >= 2
    /\ rc.emitted[1] = rc.final_block_size

----------------------------------------------------------------------------
(* The partition descriptors of a fuse table: fuse_part.rs.  A descriptor is
   a FusePartInfo (a block) or a FuseLazyPartInfo (a segment) behind
   dyn PartInfo; pruning compares and hashes them. *)

\* rows of the largest block
MaxNumsRows == 2
\* segments of the table
MaxSegments == 2

\* locations, as the bytes of their paths
Locations == {<<1>>, <<2>>, <<1, 2>>}

\* the hash values (u64 in the code)
HashModulus == 65536

\* FusePartInfo: create_on, columns_meta, compression and sort_min_max are
\* fixed, block_meta_index is None (0) or Some
FusePartInfos ==
    [type : {"fuse"}, location : Locations, nums_rows : 1..MaxNumsRows,
     block_meta_index : {0, 1}]

\* FuseLazyPartInfo: segment_index and segment_location = (path, version)
FuseLazyPartInfos ==
    [type : {"fuse_lazy"}, segment_index : 0..(MaxSegments - 1),
     segment_location : Locations \X {2, 4}]

PartInfos == FusePartInfos \cup FuseLazyPartInfos

RECURSIVE HashBytes(_, _)
\* DefaultHasher fed the bytes of a string and its terminator
HashBytes(h, bytes) ==
    IF bytes = <<>> THEN (h * 31 + 255) % HashModulus
    ELSE HashBytes((h * 31 + bytes[1]) % HashModulus, Tail(bytes))

\* Lines 56-60: downcast to FusePartInfo, then the derived PartialEq
FusePartInfoEquals(self, info) == info.type = "fuse" /\ self = info

\* Lines 62-66
FusePartInfoHash(self) == HashBytes(0, self.location)

\* Lines 129-133: downcast to FuseLazyPartInfo, then the derived PartialEq
FuseLazyPartInfoEquals(self, info) == info.type = "fuse_lazy" /\ self = info

\* (mutant) the segment index is hashed too
FuseLazyPartInfoHashIndex(self) ==
    HashBytes(self.segment_index + 1, self.segment_location[1])

\* Lines 135-139
FuseLazyPartInfoHash(self) == HashBytes(0, self.segment_location[1])

\* dyn PartInfo: the call goes to the descriptor's own implementation
Equals(self, info) ==
    IF self.type = "fuse" THEN FusePartInfoEquals(self, info)
    ELSE FuseLazyPartInfoEquals(self, info)

Hash(self) ==
    IF self.type = "fuse" THEN FusePartInfoHash(self)
    ELSE FuseLazyPartInfoHash(self)

NewPt(p, q) == [pc |-> "run", p |-> p, q |-> q, compared |-> FALSE,
                hashed |-> FALSE, eq_pq |-> FALSE, eq_qp |-> FALSE,
                eq_pp |-> FALSE, eq_qq |-> FALSE, hash_p |-> 0, hash_q |-> 0]

PtEquals ==
    /\ pt.pc = "run" /\ ~pt.compared
    /\ pt' = [pt EXCEPT !.compared = TRUE,
                        !.eq_pq = Equals(pt.p, pt.q),
                        !.eq_qp = Equals(pt.q, pt.p),
                        !.eq_pp = Equals(pt.p, pt.p),
                        !.eq_qq = Equals(pt.q, pt.q)]
    /\ UNCHANGED <<baseVars, conv, ctx>>

PtHash ==
    /\ pt.pc = "run" /\ ~pt.hashed
    /\ pt' = [pt EXCEPT !.hashed = TRUE,
                        !.hash_p = Hash(pt.p),
                        !.hash_q = Hash(pt.q)]
    /\ UNCHANGED <<baseVars, conv, ctx>>

InitPart ==
    /\ InitIdle
    /\ conv = IdleConv
    /\ ctx = IdleCtx
    /\ pt \in {NewPt(p, q) : p \in PartInfos, q \in PartInfos}

NextPart == PtEquals \/ PtHash

SpecPart == InitPart /\ [][NextPart]_vars

\* the location a descriptor is hashed by
HashedLocation(p) ==
    IF p.type = "fuse" THEN p.location ELSE p.segment_location[1]

\* C27: for two partition descriptors p and q, p.equals(q) implies
\* p.hash() = q.hash(); equals is reflexive and symmetric; a FusePartInfo
\* never equals a FuseLazyPartInfo, either way round; and two descriptors of
\* one kind with the same location (block location, segment path) have the
\* same hash.
C27_EqualsAndHash ==
    pt.pc = "run" /\ pt.compared /\ pt.hashed =>
        /\ pt.eq_pq => pt.hash_p = pt.hash_q
        /\ pt.eq_pp /\ pt.eq_qq
        /\ pt.eq_pq = pt.eq_qp
        /\ pt.p.type # pt.q.type => ~pt.eq_pq /\ ~pt.eq_qp
        /\ pt.p.type = pt.q.type /\ HashedLocation(pt.p) = HashedLocation(pt.q) =>
               pt.hash_p = pt.hash_q

\* two FusePartInfo of one block with a block_meta_index: equal both ways
\* round and hashed alike
C27_Witness ==
    /\ pt.pc = "run" /\ pt.compared /\ pt.hashed
    /\ pt.p.type = "fuse" /\ pt.q.type = "fuse"
    /\ pt.p.block_meta_index = 1
    /\ pt.eq_pq /\ pt.eq_qp
    /\ pt.hash_p = pt.hash_q

\* C28: the plan of an UPDATE is a CommitSink whose only input is an
\* UpdateSource over the pruned partitions, with mutation_kind Update, the
\* snapshot the table object was planned on, merge_meta equal to the
\* partition list's is_lazy and need_lock false; the commit stage never asks
\* for the table lock again: the statement calls try_lock once and owns one
\* lock revision at most.
C28_UpdatePlanShape ==
    \A s \in Mutations :
        /\ MutationKind(s) = "Update" /\ plan[s].kind = "commit" =>
             /\ plan[s].root = "CommitSink"
             /\ plan[s].input = "UpdateSource"
             /\ plan[s].parts.parts # {}
             /\ plan[s].removed = plan[s].parts.parts
             /\ plan[s].parts.parts \subseteq plan[s].snapshot
             /\ retries[s] = 0 /\ pc[s] = "pipeline" =>
                    plan[s].snapshot = tbl[s].snapshot
             /\ plan[s].mutation_kind = "Update"
             /\ plan[s].merge_meta = plan[s].parts.is_lazy
             /\ ~plan[s].need_lock
        /\ Count(s, "try_lock") <= 1
        /\ Cardinality(OwnRevs(s)) <= 1

\* an UPDATE over lazy partitions has published through its commit sink,
\* having asked for the lock once
C28_Witness ==
    /\ plan["u1"].kind = "commit" /\ plan["u1"].parts.is_lazy
    /\ plan["u1"].merge_meta
    /\ pc["u1"] = "done" /\ result["u1"] = "ok"
    /\ WritesOf("u1") # {}
    /\ Count("u1", "try_lock") = 1

\* C29: when check_deduplicate_label says that the label was already
\* applied, the UPDATE returns success with an empty pipeline and has done
\* nothing else: no table fetched, no lock revision created or deleted, no
\* fast_update, no mutation_read_partitions, nothing published.
C29_DedupLabelIsNoOp ==
    \A s \in Mutations :
        label[s] = "applied" =>
            /\ pc[s] = "done" /\ result[s] = "ok"
            /\ plan[s] = EmptyPipeline
            /\ calls[s] = <<"check_deduplicate_label">>
            /\ tbl[s] = NoTable
            /\ OwnRevs(s) = {} /\ dels[s] = 0 /\ guard[s] = "none"
            /\ fast[s] = ""
            /\ failed[s] = {}
            /\ WritesOf(s) = {}

\* the UPDATE with an applied label has returned while the other statements
\* have published
C29_Witness ==
    /\ label["u1"] = "applied"
    /\ pc["u1"] = "done" /\ result["u1"] = "ok"
    /\ plan["u1"] = EmptyPipeline
    /\ table.seq > 1
====
